---- MODULE Spec2Model ----
(***************************************************************************)
(* Model of the visualization scripts of the Workforce AI Transition       *)
(* Simulator: plot_simulation.py, plot_sensitivity.py and                  *)
(* interactive_dashboard.py.  One behaviour is one run of one script on    *)
(* one input file.  Strings are sequences of tokens (a token is a chunk of *)
(* characters), so that suffix, stem, lower-casing and prefix tests are    *)
(* computed as pathlib and str compute them.                               *)
(***************************************************************************)
EXTENDS Integers, Sequences, FiniteSets, TLC

VARIABLES prog, args, file, pc, data, df, calls, written, stdout,
          output_path, exit_code, opened, param_cols, outcome_cols, corr_data

vars == <<prog, args, file, pc, data, df, calls, written, stdout,
          output_path, exit_code, opened, param_cols, outcome_cols, corr_data>>

(* ------------------------------ bounds --------------------------------- *)

MaxNameLen == 3

MaxSteps == 2

MaxCols == 4

(* --------------------------- Python values ----------------------------- *)

None == <<>>

Some(v) == <<v>>

IsNone(o) == o = <<>>

Val(o) == o[1]

(* a one-token string *)
K(s) == <<s>>

RECURSIVE Str(_)
Str(toks) == IF toks = <<>> THEN "" ELSE Head(toks) \o Str(Tail(toks))

(* str.lower(), token by token *)
LowerTok(t) ==
    CASE t = "JSON" -> "json"
      [] t = "CSV"  -> "csv"
      [] OTHER      -> t

Lower(s) == [i \in 1..Len(s) |-> LowerTok(s[i])]

(* str.rfind: the last index of tok in s, 0 when absent (Python's -1) *)
RFind(s, tok) ==
    LET hits == {i \in 1..Len(s) : s[i] = tok}
    IN  IF hits = {} THEN 0 ELSE CHOOSE i \in hits : \A j \in hits : j <= i

(* ------------------------------ pathlib -------------------------------- *)

PathName(p) == SubSeq(p, RFind(p, "/") + 1, Len(p))

PathParent(p) ==
    IF RFind(p, "/") = 0 THEN K(".") ELSE SubSeq(p, 1, RFind(p, "/") - 1)

(* PurePath.suffix: name[i:] for i = name.rfind('.') when 0 < i < len - 1 *)
PathSuffix(p) ==
    LET name == PathName(p)
        i    == RFind(name, ".")
    IN  IF 1 < i /\ i < Len(name) THEN SubSeq(name, i, Len(name)) ELSE <<>>

PathStem(p) ==
    LET name == PathName(p)
        i    == RFind(name, ".")
    IN  IF 1 < i /\ i < Len(name) THEN SubSeq(name, 1, i - 1) ELSE name

(* parent / child; the current directory "." is dropped by pathlib *)
PathJoin(parent, child) ==
    IF parent = K(".") THEN child ELSE parent \o K("/") \o child

DotJson == <<".", "json">>

DotCsv == <<".", "csv">>

(* --------------------------- input files ------------------------------- *)

(* The input files are reports as the simulator writes them: a JSON file holds
   one top-level object, every time-series record and every time-series CSV has
   the TimeStep column, and the two workforce columns come together.  A report
   is kept by the keys and column names the scripts test; the numbers in it are
   handed to the charting library unread. *)

NameTokens == {"r", ".", "json", "JSON", "csv"}

FileNames ==
    {n \in UNION {[1..k -> NameTokens] : k \in 1..MaxNameLen} :
        \E i \in 1..Len(n) : n[i] # "."}

Dirs == {<<>>, <<"d", "/">>}

(* column names of the reports *)
TimeStep == K("TimeStep")

TotalHumans == K("TotalHumans")

TotalAIAgents == K("TotalAIAgents")

RevenueOutput == K("RevenueOutput")

WorkforceHumansTotal == <<"Workforce", ".", "Humans", ".", "Total">>

WorkforceAIAgentsTotal == <<"Workforce", ".", "AIAgents", ".", "Total">>

(* A time-series record is a sequence of key paths, one per leaf value. *)
NestedRecord ==
    << <<TimeStep>>,
       <<K("Workforce"), K("Humans"), K("Total")>>,
       <<K("Workforce"), K("AIAgents"), K("Total")>>,
       <<RevenueOutput>> >>

FlatRecord == << <<TimeStep>>, <<TotalHumans>>, <<TotalAIAgents>>, <<RevenueOutput>> >>

DottedRecord == << <<TimeStep>>, <<WorkforceHumansTotal>>, <<WorkforceAIAgentsTotal>> >>

RecordShapes == {NestedRecord, FlatRecord, DottedRecord}

SeriesSet == UNION {[1..k -> RecordShapes] : k \in 0..MaxSteps}

(* A JSON report: the keys of its top-level object and its TimeSeries. *)
SimulationDocs == {[keys |-> {"TimeSeries"}, TimeSeries |-> ts] : ts \in SeriesSet}

SensitivityDocs ==
    {[keys |-> k, TimeSeries |-> <<>>] :
        k \in SUBSET {"ParameterRankings", "SensitivityResults"}}

JsonDocs == SimulationDocs \cup SensitivityDocs

SimulationHeaders ==
    {<<TimeStep>> \o w \o r :
        w \in {<<>>, <<TotalHumans, TotalAIAgents>>,
               <<WorkforceHumansTotal, WorkforceAIAgentsTotal>>},
        r \in {<<>>, <<RevenueOutput>>}}

SensitivityColumns ==
    << <<"Param_", "Rate">>, K("InitialHumans"), K("TimeToEquilibrium"),
       K("FinalHumans"), K("Run") >>

SelectCols(master, keep) ==
    LET F[i \in 0..Len(master)] ==
            IF i = 0 THEN <<>>
            ELSE IF i \in keep THEN Append(F[i - 1], master[i]) ELSE F[i - 1]
    IN  F[Len(master)]

SensitivityHeaders ==
    {SelectCols(SensitivityColumns, keep) :
        keep \in {s \in SUBSET (1..Len(SensitivityColumns)) : Cardinality(s) <= MaxCols}}

CsvHeaders == SimulationHeaders \cup SensitivityHeaders

NoDoc == [keys |-> {}, TimeSeries |-> <<>>]

JsonFile(doc) == [format |-> "json", doc |-> doc, header |-> <<>>]

CsvFile(h) == [format |-> "csv", doc |-> NoDoc, header |-> h]

OtherFile == [format |-> "other", doc |-> NoDoc, header |-> <<>>]

(* ------------------------------ pandas --------------------------------- *)

RECURSIVE Dedup(_)
Dedup(s) ==
    IF s = <<>> THEN <<>>
    ELSE LET r == Dedup(SubSeq(s, 1, Len(s) - 1))
             x == s[Len(s)]
         IN  IF \E i \in 1..Len(r) : r[i] = x THEN r ELSE Append(r, x)

RECURSIVE Concat(_)
Concat(ss) == IF ss = <<>> THEN <<>> ELSE Head(ss) \o Concat(Tail(ss))

(* pd.DataFrame(list of dicts): one column per top-level key *)
RecordColumns(rec) == [i \in 1..Len(rec) |-> Head(rec[i])]

DataFrame(records) ==
    [columns |-> Dedup(Concat([i \in 1..Len(records) |-> RecordColumns(records[i])])),
     rows    |-> Len(records)]

(* pd.read_csv: one column per header field *)
ReadCsv(f) == [columns |-> f.header, rows |-> 1]

Columns(frame) == {frame.columns[i] : i \in 1..Len(frame.columns)}

(* --------------------------- plot_simulation --------------------------- *)

(* load_simulation_data comparing the suffix without lower() *)
load_simulation_data_CaseSensitive(file_path, f) ==
    IF PathSuffix(file_path) = DotJson
    THEN IF "TimeSeries" \in f.doc.keys
         THEN <<Some(f.doc), Some(DataFrame(f.doc.TimeSeries)), <<>> >>
         ELSE <<None, None, <<"Error: No TimeSeries data found in JSON file">> >>
    ELSE IF PathSuffix(file_path) = DotCsv
    THEN <<None, Some(ReadCsv(f)), <<>> >>
    ELSE <<None, None, <<"Error: Unsupported file format">> >>

(* load_simulation_data: <<data, df, messages>> *)
load_simulation_data(file_path, f) ==
    IF Lower(PathSuffix(file_path)) = DotJson
    THEN IF "TimeSeries" \in f.doc.keys
         THEN <<Some(f.doc), Some(DataFrame(f.doc.TimeSeries)), <<>> >>
         ELSE <<None, None, <<"Error: No TimeSeries data found in JSON file">> >>
    ELSE IF Lower(PathSuffix(file_path)) = DotCsv
    THEN <<None, Some(ReadCsv(f)), <<>> >>
    ELSE <<None, None, <<"Error: Unsupported file format">> >>

(* plot_workforce_composition: <<files written, messages>> *)
plot_workforce_composition(frame) ==
    LET humans_col == IF WorkforceHumansTotal \in Columns(frame)
                      THEN WorkforceHumansTotal ELSE TotalHumans
    IN  IF humans_col \notin Columns(frame)
        THEN <<{}, <<"Warning: Could not find workforce composition columns">> >>
        ELSE <<{"workforce_composition.png"}, <<>> >>

plot_revenue_and_productivity(frame) == <<{"revenue_productivity.png"}, <<>> >>

plot_cost_analysis(frame) == <<{"cost_analysis.png"}, <<>> >>

(* plot_equilibrium_analysis without the data-is-None return of lines 152-154 *)
plot_equilibrium_analysis_Unguarded(d, frame) == <<{"equilibrium_analysis.png"}, <<>> >>

plot_equilibrium_analysis(d, frame) ==
    IF IsNone(d)
    THEN <<{}, <<"Warning: Cannot create equilibrium analysis without JSON data">> >>
    ELSE <<{"equilibrium_analysis.png"}, <<>> >>

create_summary_dashboard(d, frame) == <<{"simulation_dashboard.png"}, <<>> >>

(* main without the sys.exit(1) of line 319 *)
SimMainLoad_NoExit ==
    /\ prog = "plot_simulation"
    /\ pc = "start"
    /\ LET r == load_simulation_data(args.input_file, file)
       IN  /\ data' = r[1]
           /\ df' = r[2]
           /\ stdout' = IF IsNone(r[2])
                        THEN stdout \o r[3] \o <<"Error: Could not load simulation data">>
                        ELSE stdout \o r[3]
           /\ exit_code' = exit_code
           /\ pc' = IF args.dashboard_only THEN "dashboard" ELSE "workforce"
    /\ UNCHANGED <<prog, args, file, calls, written, output_path, opened,
                   param_cols, outcome_cols, corr_data>>

(* main, lines 313-326: load, give up without a DataFrame, else pick the branch *)
SimMainLoad ==
    /\ prog = "plot_simulation"
    /\ pc = "start"
    /\ LET r == load_simulation_data(args.input_file, file)
       IN  /\ data' = r[1]
           /\ df' = r[2]
           /\ IF IsNone(r[2])
              THEN /\ stdout' = stdout \o r[3] \o <<"Error: Could not load simulation data">>
                   /\ exit_code' = Some(1)
                   /\ pc' = "exit"
              ELSE /\ stdout' = stdout \o r[3]
                   /\ exit_code' = exit_code
                   /\ pc' = IF args.dashboard_only THEN "dashboard" ELSE "workforce"
    /\ UNCHANGED <<prog, args, file, calls, written, output_path, opened,
                   param_cols, outcome_cols, corr_data>>

(* one renderer call of main: the call is recorded, its files are written *)
Render(at, fn, r, next) ==
    /\ pc = at
    /\ calls' = Append(calls, fn)
    /\ written' = written \cup r[1]
    /\ stdout' = stdout \o r[2]
    /\ pc' = next
    /\ exit_code' = IF next = "done" THEN Some(0) ELSE exit_code

SimWorkforce ==
    /\ prog = "plot_simulation"
    /\ Render("workforce", "plot_workforce_composition",
              plot_workforce_composition(Val(df)), "revenue")
    /\ UNCHANGED <<prog, args, file, data, df, output_path, opened,
                   param_cols, outcome_cols, corr_data>>

SimRevenue ==
    /\ prog = "plot_simulation"
    /\ Render("revenue", "plot_revenue_and_productivity",
              plot_revenue_and_productivity(Val(df)), "cost")
    /\ UNCHANGED <<prog, args, file, data, df, output_path, opened,
                   param_cols, outcome_cols, corr_data>>

SimCost ==
    /\ prog = "plot_simulation"
    /\ Render("cost", "plot_cost_analysis", plot_cost_analysis(Val(df)), "equilibrium")
    /\ UNCHANGED <<prog, args, file, data, df, output_path, opened,
                   param_cols, outcome_cols, corr_data>>

SimEquilibrium ==
    /\ prog = "plot_simulation"
    /\ Render("equilibrium", "plot_equilibrium_analysis",
              plot_equilibrium_analysis(data, Val(df)), "dashboard")
    /\ UNCHANGED <<prog, args, file, data, df, output_path, opened,
                   param_cols, outcome_cols, corr_data>>

SimDashboard ==
    /\ prog = "plot_simulation"
    /\ Render("dashboard", "create_summary_dashboard",
              create_summary_dashboard(data, Val(df)), "done")
    /\ UNCHANGED <<prog, args, file, data, df, output_path, opened,
                   param_cols, outcome_cols, corr_data>>

(* --------------------------- plot_sensitivity -------------------------- *)

(* Python truth value of a loaded JSON object: None and {} are false *)
Truthy(d) == ~IsNone(d) /\ Val(d).keys # {}

(* load_sensitivity_data building a DataFrame from JSON as plot_simulation does *)
load_sensitivity_data_WithFrame(file_path, f) ==
    IF Lower(PathSuffix(file_path)) = DotJson
    THEN <<Some(f.doc), Some(DataFrame(f.doc.TimeSeries)), <<>> >>
    ELSE IF Lower(PathSuffix(file_path)) = DotCsv
    THEN <<None, Some(ReadCsv(f)), <<>> >>
    ELSE <<None, None, <<"Error: Unsupported file format">> >>

(* load_sensitivity_data: <<data, df, messages>> *)
load_sensitivity_data(file_path, f) ==
    IF Lower(PathSuffix(file_path)) = DotJson
    THEN <<Some(f.doc), None, <<>> >>
    ELSE IF Lower(PathSuffix(file_path)) = DotCsv
    THEN <<None, Some(ReadCsv(f)), <<>> >>
    ELSE <<None, None, <<"Error: Unsupported file format">> >>

plot_parameter_rankings(d) ==
    IF ~Truthy(d) \/ "ParameterRankings" \notin Val(d).keys
    THEN <<{}, <<"Warning: No parameter rankings found in data">> >>
    ELSE <<{"parameter_rankings.png"}, <<>> >>

plot_parameter_variations(d) ==
    IF ~Truthy(d) \/ "SensitivityResults" \notin Val(d).keys
    THEN <<{}, <<"Warning: No sensitivity results found in data">> >>
    ELSE <<{"parameter_variations.png"}, <<>> >>

ParameterNames == {K("InitialHumans"), K("FixedBudget"), K("NaturalRate")}

OutcomeNames ==
    {K("TimeToEquilibrium"), K("FinalHumans"), K("FinalAIAgents"), K("FinalRevenue")}

(* col.startswith('Param_') *)
StartsWithParam(col) == col # <<>> /\ Head(col) = "Param_"

(* the loop of lines 160-164 without the startswith('Param_') test *)
RECURSIVE ClassifyColumns_NoPrefix(_)
ClassifyColumns_NoPrefix(cols) ==
    IF cols = <<>> THEN << <<>>, <<>> >>
    ELSE LET r   == ClassifyColumns_NoPrefix(SubSeq(cols, 1, Len(cols) - 1))
             col == cols[Len(cols)]
         IN  IF col \in ParameterNames
             THEN <<Append(r[1], col), r[2]>>
             ELSE IF col \in OutcomeNames
             THEN <<r[1], Append(r[2], col)>>
             ELSE r

(* the loop of lines 160-164 over df.columns: <<param_cols, outcome_cols>> *)
RECURSIVE ClassifyColumns(_)
ClassifyColumns(cols) ==
    IF cols = <<>> THEN << <<>>, <<>> >>
    ELSE LET r   == ClassifyColumns(SubSeq(cols, 1, Len(cols) - 1))
             col == cols[Len(cols)]
         IN  IF StartsWithParam(col) \/ col \in ParameterNames
             THEN <<Append(r[1], col), r[2]>>
             ELSE IF col \in OutcomeNames
             THEN <<r[1], Append(r[2], col)>>
             ELSE r

(* lines 173-180: the inner loop, one df[param].corr(df[outcome]) per entry *)
RECURSIVE CorrelateOutcomes(_, _, _, _)
CorrelateOutcomes(frame, param, outcomes, acc) ==
    IF outcomes = <<>> THEN acc
    ELSE LET outcome == Head(outcomes)
             next    == IF param \in Columns(frame) /\ outcome \in Columns(frame)
                        THEN Append(acc, [Parameter |-> param, Outcome |-> outcome])
                        ELSE acc
         IN  CorrelateOutcomes(frame, param, Tail(outcomes), next)

(* lines 171-172: the outer loop over param_cols *)
RECURSIVE Correlations(_, _, _, _)
Correlations(frame, params, outcomes, acc) ==
    IF params = <<>> THEN acc
    ELSE Correlations(frame, Tail(params), outcomes,
                      CorrelateOutcomes(frame, Head(params), outcomes, acc))

(* plot_sensitivity_heatmap: <<files, messages, param_cols, outcome_cols, corr_data>> *)
plot_sensitivity_heatmap(fr) ==
    IF IsNone(fr)
    THEN <<{}, <<"Warning: No CSV data available for heatmap">>, <<>>, <<>>, <<>> >>
    ELSE LET c == ClassifyColumns(Val(fr).columns)
         IN  IF c[1] = <<>> \/ c[2] = <<>>
             THEN <<{}, <<"Warning: Could not identify parameter and outcome columns for heatmap">>,
                    c[1], c[2], <<>> >>
             ELSE LET corr == Correlations(Val(fr), c[1], c[2], <<>>)
                  IN  IF corr = <<>>
                      THEN <<{}, <<>>, c[1], c[2], corr>>
                      ELSE <<{"sensitivity_heatmap.png"}, <<>>, c[1], c[2], corr>>

plot_parameter_distributions(fr) ==
    IF IsNone(fr) THEN <<{}, <<>> >>
    ELSE IF Columns(Val(fr)) \cap OutcomeNames = {}
    THEN <<{}, <<"Warning: No outcome columns found for distribution plots">> >>
    ELSE <<{"outcome_distributions.png"}, <<>> >>

create_sensitivity_dashboard(d, fr) == <<{"sensitivity_dashboard.png"}, <<>> >>

(* main, lines 358-366: what follows the JSON plots *)
SensAfterData(fr) == IF ~IsNone(fr) THEN "heatmap" ELSE "s_dashboard"

(* main without the --dashboard-only test of line 346 *)
SensFirst_IgnoresDashboardOnly(a, d, fr) ==
    IF Truthy(d) THEN "rankings" ELSE SensAfterData(fr)

(* main, lines 346-351: the first renderer after a successful load *)
SensFirst(a, d, fr) ==
    IF a.dashboard_only THEN "s_dashboard"
    ELSE IF Truthy(d) THEN "rankings" ELSE SensAfterData(fr)

(* main, lines 335-344 *)
SensMainLoad ==
    /\ prog = "plot_sensitivity"
    /\ pc = "start"
    /\ LET r == load_sensitivity_data(args.input_file, file)
       IN  /\ data' = r[1]
           /\ df' = r[2]
           /\ IF IsNone(r[1]) /\ IsNone(r[2])
              THEN /\ stdout' = stdout \o r[3]
                                \o <<"Error: Could not load sensitivity analysis data">>
                   /\ exit_code' = Some(1)
                   /\ pc' = "exit"
              ELSE /\ stdout' = stdout \o r[3]
                   /\ exit_code' = exit_code
                   /\ pc' = SensFirst(args, r[1], r[2])
    /\ UNCHANGED <<prog, args, file, calls, written, output_path, opened,
                   param_cols, outcome_cols, corr_data>>

SensRankings ==
    /\ prog = "plot_sensitivity"
    /\ Render("rankings", "plot_parameter_rankings", plot_parameter_rankings(data),
              "variations")
    /\ UNCHANGED <<prog, args, file, data, df, output_path, opened,
                   param_cols, outcome_cols, corr_data>>

SensVariations ==
    /\ prog = "plot_sensitivity"
    /\ Render("variations", "plot_parameter_variations", plot_parameter_variations(data),
              SensAfterData(df))
    /\ UNCHANGED <<prog, args, file, data, df, output_path, opened,
                   param_cols, outcome_cols, corr_data>>

SensHeatmap ==
    /\ prog = "plot_sensitivity"
    /\ LET r == plot_sensitivity_heatmap(df)
       IN  /\ Render("heatmap", "plot_sensitivity_heatmap", r, "distributions")
           /\ param_cols' = r[3]
           /\ outcome_cols' = r[4]
           /\ corr_data' = r[5]
    /\ UNCHANGED <<prog, args, file, data, df, output_path, opened>>

SensDistributions ==
    /\ prog = "plot_sensitivity"
    /\ Render("distributions", "plot_parameter_distributions",
              plot_parameter_distributions(df), "s_dashboard")
    /\ UNCHANGED <<prog, args, file, data, df, output_path, opened,
                   param_cols, outcome_cols, corr_data>>

SensDashboard ==
    /\ prog = "plot_sensitivity"
    /\ Render("s_dashboard", "create_sensitivity_dashboard",
              create_sensitivity_dashboard(data, df), "done")
    /\ UNCHANGED <<prog, args, file, data, df, output_path, opened,
                   param_cols, outcome_cols, corr_data>>

(* ------------------------- interactive_dashboard ----------------------- *)

(* load_simulation_data of interactive_dashboard.py: JSON only *)
interactive_load_simulation_data(file_path, f) ==
    IF Lower(PathSuffix(file_path)) = DotJson
    THEN IF "TimeSeries" \in f.doc.keys
         THEN <<Some(f.doc), Some(DataFrame(f.doc.TimeSeries)), <<>> >>
         ELSE <<None, None, <<"Error: No TimeSeries data found in JSON file">> >>
    ELSE <<None, None, <<"Error: Unsupported file format">> >>

(* create_simulation_dashboard: pyo.plot writes the HTML file *)
create_simulation_dashboard(d, frame, out) == <<{Str(out)}, <<>> >>

(* create_sensitivity_dashboard of interactive_dashboard.py *)
interactive_create_sensitivity_dashboard(d, out) ==
    IF ~Truthy(d) \/ "ParameterRankings" \notin Val(d).keys
    THEN <<{}, <<"Error: No parameter rankings found in sensitivity data">> >>
    ELSE <<{Str(out)}, <<>> >>

(* main with the same default file name in both modes *)
OutputPath_OneDefault(a) ==
    IF a.output.given /\ a.output.value # <<>>
    THEN a.output.value
    ELSE PathJoin(PathParent(a.input_file),
                  PathStem(a.input_file) \o K("_dashboard.html"))

(* main, lines 300-308 *)
OutputPath(a) ==
    IF a.output.given /\ a.output.value # <<>>
    THEN a.output.value
    ELSE IF a.sensitivity
    THEN PathJoin(PathParent(a.input_file),
                  PathStem(a.input_file) \o K("_sensitivity_dashboard.html"))
    ELSE PathJoin(PathParent(a.input_file),
                  PathStem(a.input_file) \o K("_dashboard.html"))

DashOutputPath ==
    /\ prog = "interactive_dashboard"
    /\ pc = "start"
    /\ output_path' = OutputPath(args)
    /\ pc' = "load"
    /\ UNCHANGED <<prog, args, file, data, df, calls, written, stdout, exit_code,
                   opened, param_cols, outcome_cols, corr_data>>

(* main, lines 313-317 *)
DashSensitivity ==
    /\ prog = "interactive_dashboard"
    /\ args.sensitivity
    /\ data' = Some(file.doc)
    /\ Render("load", "create_sensitivity_dashboard",
              interactive_create_sensitivity_dashboard(Some(file.doc), output_path),
              "open")
    /\ UNCHANGED <<prog, args, file, df, output_path, opened,
                   param_cols, outcome_cols, corr_data>>

(* main, lines 318-324 *)
DashSimulation ==
    /\ prog = "interactive_dashboard"
    /\ ~args.sensitivity
    /\ pc = "load"
    /\ LET r == interactive_load_simulation_data(args.input_file, file)
       IN  /\ data' = r[1]
           /\ df' = r[2]
           /\ IF IsNone(r[1]) \/ IsNone(r[2])
              THEN /\ stdout' = stdout \o r[3] \o <<"Error: Could not load simulation data">>
                   /\ exit_code' = Some(1)
                   /\ pc' = "exit"
                   /\ UNCHANGED <<calls, written>>
              ELSE /\ calls' = Append(calls, "create_simulation_dashboard")
                   /\ written' = written
                          \cup create_simulation_dashboard(r[1], Val(r[2]), output_path)[1]
                   /\ stdout' = stdout \o r[3]
                   /\ exit_code' = exit_code
                   /\ pc' = "open"
    /\ UNCHANGED <<prog, args, file, output_path, opened,
                   param_cols, outcome_cols, corr_data>>

(* main, lines 326-329 *)
DashOpen ==
    /\ prog = "interactive_dashboard"
    /\ pc = "open"
    /\ opened' = IF args.open THEN Some(Str(output_path)) ELSE opened
    /\ pc' = "done"
    /\ exit_code' = Some(0)
    /\ UNCHANGED <<prog, args, file, data, df, calls, written, stdout, output_path,
                   param_cols, outcome_cols, corr_data>>

(* ------------------------------ the runs ------------------------------- *)

NoOutput == [given |-> FALSE, value |-> <<>>]

OutputArgs ==
    {NoOutput, [given |-> TRUE, value |-> <<>>],
     [given |-> TRUE, value |-> <<"o", ".", "html">>]}

(* the file holds what its reader parses: a JSON report or a CSV table *)
FilesFor(p, a) ==
    IF p = "interactive_dashboard" /\ a.sensitivity
    THEN {JsonFile(d) : d \in JsonDocs}
    ELSE IF Lower(PathSuffix(a.input_file)) = DotJson
    THEN {JsonFile(d) : d \in JsonDocs}
    ELSE IF Lower(PathSuffix(a.input_file)) = DotCsv /\ p # "interactive_dashboard"
    THEN {CsvFile(h) : h \in CsvHeaders}
    ELSE {OtherFile}

ArgsFor(p) ==
    IF p = "interactive_dashboard"
    THEN [input_file : {d \o n : d \in Dirs, n \in FileNames}, output : OutputArgs,
          dashboard_only : {FALSE}, sensitivity : BOOLEAN, open : BOOLEAN]
    ELSE [input_file : FileNames, output : {NoOutput},
          dashboard_only : BOOLEAN, sensitivity : {FALSE}, open : {FALSE}]

Init ==
    /\ prog \in {"plot_simulation", "plot_sensitivity", "interactive_dashboard"}
    /\ args \in ArgsFor(prog)
    /\ file \in FilesFor(prog, args)
    /\ pc = "start"
    /\ data = None
    /\ df = None
    /\ calls = <<>>
    /\ written = {}
    /\ stdout = <<>>
    /\ output_path = <<>>
    /\ exit_code = None
    /\ opened = None
    /\ param_cols = <<>>
    /\ outcome_cols = <<>>
    /\ corr_data = <<>>

Next ==
    \/ SimMainLoad
    \/ SimWorkforce
    \/ SimRevenue
    \/ SimCost
    \/ SimEquilibrium
    \/ SimDashboard
    \/ SensMainLoad
    \/ SensRankings
    \/ SensVariations
    \/ SensHeatmap
    \/ SensDistributions
    \/ SensDashboard
    \/ DashOutputPath
    \/ DashSensitivity
    \/ DashSimulation
    \/ DashOpen

Spec == Init /\ [][Next]_vars

(* ------------------------------- claims -------------------------------- *)

Loaded == pc \notin {"start", "load"}

LowerSuffix == Lower(PathSuffix(args.input_file))

HasTimeSeries == "TimeSeries" \in file.doc.keys

(* C1: plot_simulation.load_simulation_data dispatches on the lower-cased file
   suffix: '.json' with a 'TimeSeries' key gives (data, df), both set; '.json'
   without it gives (None, None); '.csv' gives (None, df); any other suffix gives
   (None, None); data is never set while df is None. *)
C1_LoadSimulationDispatch ==
    (prog = "plot_simulation" /\ Loaded) =>
        /\ (LowerSuffix = DotJson /\ HasTimeSeries)
               => (data = Some(file.doc) /\ ~IsNone(df))
        /\ (LowerSuffix = DotJson /\ ~HasTimeSeries) => (IsNone(data) /\ IsNone(df))
        /\ (LowerSuffix = DotCsv) => (IsNone(data) /\ ~IsNone(df))
        /\ (LowerSuffix \notin {DotJson, DotCsv}) => (IsNone(data) /\ IsNone(df))
        /\ ~(~IsNone(data) /\ IsNone(df))

C1_Witness ==
    /\ prog = "plot_simulation"
    /\ Loaded
    /\ PathSuffix(args.input_file) = <<".", "JSON">>
    /\ ~IsNone(data)
    /\ ~IsNone(df)

(* C2: plot_sensitivity.load_sensitivity_data gives (data, None) for '.json',
   (None, df) for '.csv' and (None, None) for any other suffix, the suffix being
   compared case-insensitively; at most one of the two components is set. *)
C2_LoadSensitivityDispatch ==
    (prog = "plot_sensitivity" /\ Loaded) =>
        /\ (LowerSuffix = DotJson) => (data = Some(file.doc) /\ IsNone(df))
        /\ (LowerSuffix = DotCsv) => (IsNone(data) /\ df = Some(ReadCsv(file)))
        /\ (LowerSuffix \notin {DotJson, DotCsv}) => (IsNone(data) /\ IsNone(df))
        /\ (IsNone(data) \/ IsNone(df))

C2_Witness ==
    /\ prog = "plot_sensitivity"
    /\ Loaded
    /\ PathSuffix(args.input_file) = <<".", "JSON">>
    /\ ~IsNone(data)
    /\ IsNone(df)

(* C3: in plot_simulation.main and in interactive_dashboard.main without
   --sensitivity, a load that yields no DataFrame (unsupported suffix, or JSON
   without 'TimeSeries') prints an error and exits with status 1 before any
   renderer is called, so the run writes no chart and no HTML file. *)
C3_NoFrameNoRender ==
    LET simulation == prog = "plot_simulation"
        dashboard  == prog = "interactive_dashboard" /\ ~args.sensitivity
        noFrame    == \/ IsNone(df)
                      \/ LowerSuffix = DotJson /\ ~HasTimeSeries
                      \/ LowerSuffix \notin {DotJson, DotCsv}
                      \/ dashboard /\ LowerSuffix # DotJson
    IN  ((simulation \/ dashboard) /\ Loaded /\ noFrame) =>
            /\ pc = "exit"
            /\ exit_code = Some(1)
            /\ calls = <<>>
            /\ written = {}
            /\ \E i \in 1..Len(stdout) : stdout[i] = "Error: Could not load simulation data"

C3_Witness ==
    /\ prog = "plot_simulation"
    /\ LowerSuffix = DotJson
    /\ ~HasTimeSeries
    /\ pc = "exit"
    /\ exit_code = Some(1)

(* C4: with --dashboard-only and a successful load, plot_simulation.main calls
   only create_summary_dashboard and plot_sensitivity.main calls only
   create_sensitivity_dashboard, so the dashboard PNG is the only PNG written. *)
C4_DashboardOnly ==
    LET fn  == IF prog = "plot_simulation" THEN "create_summary_dashboard"
               ELSE "create_sensitivity_dashboard"
        png == IF prog = "plot_simulation" THEN "simulation_dashboard.png"
               ELSE "sensitivity_dashboard.png"
    IN  (prog \in {"plot_simulation", "plot_sensitivity"} /\ args.dashboard_only) =>
            /\ calls \in {<<>>, <<fn>>}
            /\ written \subseteq {png}
            /\ (pc = "done") => (calls = <<fn>> /\ written = {png})
            /\ (Loaded /\ pc # "exit") => (pc = "done" \/ calls = <<>>)

C4_Witness ==
    /\ prog = "plot_sensitivity"
    /\ args.dashboard_only
    /\ ~IsNone(df)
    /\ pc = "done"
    /\ written = {"sensitivity_dashboard.png"}

FiveRenderers ==
    <<"plot_workforce_composition", "plot_revenue_and_productivity",
      "plot_cost_analysis", "plot_equilibrium_analysis", "create_summary_dashboard">>

(* C5: without --dashboard-only and after a successful load, plot_simulation.main
   calls the five renderers once each in the order workforce, revenue/productivity,
   cost, equilibrium, dashboard; equilibrium_analysis.png is written exactly when
   the input was JSON (data is not None); simulation_dashboard.png is written for
   JSON and for CSV input. *)
C5_FiveRenderersInOrder ==
    (prog = "plot_simulation" /\ ~args.dashboard_only /\ Loaded /\ ~IsNone(df)) =>
        /\ pc # "exit"
        /\ Len(calls) <= Len(FiveRenderers)
        /\ calls = SubSeq(FiveRenderers, 1, Len(calls))
        /\ (pc = "done") =>
              /\ calls = FiveRenderers
              /\ ("equilibrium_analysis.png" \in written) <=> ~IsNone(data)
              /\ ("equilibrium_analysis.png" \in written) <=> (LowerSuffix = DotJson)
              /\ "simulation_dashboard.png" \in written

C5_Witness ==
    /\ prog = "plot_simulation"
    /\ ~args.dashboard_only
    /\ LowerSuffix = DotCsv
    /\ pc = "done"
    /\ calls = FiveRenderers
    /\ "equilibrium_analysis.png" \notin written
    /\ "simulation_dashboard.png" \in written

(* the default output file of interactive_dashboard: the input's directory
   prefix, the name without its suffix, and the given tail *)
DefaultOutput(tail) ==
    LET p   == args.input_file
        dir == IF Len(p) >= 2 /\ p[2] = "/" THEN SubSeq(p, 1, 2) ELSE <<>>
        n   == SubSeq(p, Len(dir) + 1, Len(p))
    IN  Str(dir) \o Str(PathStem(n)) \o tail

C6_Defaults ==
    /\ args.sensitivity => Str(output_path) = DefaultOutput("_sensitivity_dashboard.html")
    /\ ~args.sensitivity => Str(output_path) = DefaultOutput("_dashboard.html")
    /\ Str(output_path) # Str(OutputPath([args EXCEPT !.sensitivity = ~@]))

(* C6 as stated: in interactive_dashboard.main the output path is exactly the
   -o/--output value when one is given; otherwise it lies in the input file's
   directory and is named '<stem>_sensitivity_dashboard.html' with --sensitivity
   and '<stem>_dashboard.html' without; the two defaults differ for one input. *)
C6_OutputPathAsStated ==
    (prog = "interactive_dashboard" /\ pc # "start") =>
        /\ args.output.given => output_path = args.output.value
        /\ ~args.output.given => C6_Defaults

(* C6 amended: the output path is exactly the -o/--output value when a
   non-empty one is given; with no -o, or an empty one, it lies in the input
   file's directory and is named '<stem>_sensitivity_dashboard.html' with
   --sensitivity and '<stem>_dashboard.html' without; the two defaults differ. *)
C6_OutputPath ==
    (prog = "interactive_dashboard" /\ pc # "start") =>
        /\ (args.output.given /\ args.output.value # <<>>)
               => output_path = args.output.value
        /\ (~args.output.given \/ args.output.value = <<>>) => C6_Defaults

C6_Witness ==
    /\ prog = "interactive_dashboard"
    /\ pc = "done"
    /\ ~args.output.given
    /\ args.sensitivity
    /\ PathParent(args.input_file) = K("d")
    /\ Str(output_path) \in written

(* C7: in interactive_dashboard.main with --open, whenever webbrowser.open is
   called the HTML file at output_path was written earlier in the same run, in
   simulation mode and in --sensitivity mode, also for sensitivity input without
   'ParameterRankings'. *)
C7_OpenAfterCreate ==
    (prog = "interactive_dashboard" /\ ~IsNone(opened)) =>
        /\ Val(opened) = Str(output_path)
        /\ Val(opened) \in written

HasNestedWorkforce(rec) ==
    /\ \E i \in 1..Len(rec) : rec[i] = <<K("Workforce"), K("Humans"), K("Total")>>
    /\ \E i \in 1..Len(rec) : rec[i] = <<K("Workforce"), K("AIAgents"), K("Total")>>

(* C8: for a JSON simulation report whose TimeSeries records carry the workforce
   nested (Workforce -> Humans / AIAgents -> Total), the DataFrame of
   load_simulation_data has the columns 'Workforce.Humans.Total' and
   'Workforce.AIAgents.Total', and plot_workforce_composition writes
   workforce_composition.png instead of printing the missing-columns warning. *)
C8_NestedWorkforcePlotted ==
    LET series == file.doc.TimeSeries
    IN  (/\ prog = "plot_simulation"
         /\ Loaded
         /\ LowerSuffix = DotJson
         /\ HasTimeSeries
         /\ series # <<>>
         /\ \A i \in 1..Len(series) : HasNestedWorkforce(series[i])) =>
            /\ ~IsNone(df)
            /\ WorkforceHumansTotal \in Columns(Val(df))
            /\ WorkforceAIAgentsTotal \in Columns(Val(df))
            /\ ("plot_workforce_composition" \in {calls[i] : i \in 1..Len(calls)}) =>
                  /\ "workforce_composition.png" \in written
                  /\ \A i \in 1..Len(stdout) :
                        stdout[i] # "Warning: Could not find workforce composition columns"

SeqSet(s) == {s[i] : i \in 1..Len(s)}

(* C9: plot_sensitivity_heatmap classifies each column as a parameter column
   (name starts with 'Param_' or is InitialHumans, FixedBudget or NaturalRate), as
   an outcome column (TimeToEquilibrium, FinalHumans, FinalAIAgents, FinalRevenue)
   or as neither, never as both; it writes no sensitivity_heatmap.png when df is
   None or a class is empty; otherwise it computes exactly one correlation per
   (parameter column, outcome column) pair: |parameters| x |outcomes| entries. *)
C9_HeatmapCorrelations ==
    LET isParam(c)   == c[1] = "Param_"
                        \/ c \in {K("InitialHumans"), K("FixedBudget"), K("NaturalRate")}
        isOutcome(c) == c \in {K("TimeToEquilibrium"), K("FinalHumans"),
                               K("FinalAIAgents"), K("FinalRevenue")}
        P == SeqSet(param_cols)
        O == SeqSet(outcome_cols)
    IN  /\ plot_sensitivity_heatmap(None)[1] = {}
        /\ (prog = "plot_sensitivity" /\ "plot_sensitivity_heatmap" \in SeqSet(calls)) =>
              /\ P = {c \in Columns(Val(df)) : isParam(c)}
              /\ O = {c \in Columns(Val(df)) : isOutcome(c)}
              /\ P \cap O = {}
              /\ Len(param_cols) = Cardinality(P)
              /\ Len(outcome_cols) = Cardinality(O)
              /\ (P = {} \/ O = {}) =>
                    (corr_data = <<>> /\ "sensitivity_heatmap.png" \notin written)
              /\ (P # {} /\ O # {}) =>
                    /\ Len(corr_data) = Cardinality(P) * Cardinality(O)
                    /\ \A p \in P, o \in O :
                          Cardinality({i \in 1..Len(corr_data) :
                              corr_data[i] = [Parameter |-> p, Outcome |-> o]}) = 1
                    /\ "sensitivity_heatmap.png" \in written

C9_Witness ==
    /\ prog = "plot_sensitivity"
    /\ "plot_sensitivity_heatmap" \in SeqSet(calls)
    /\ Len(param_cols) = 2
    /\ Len(outcome_cols) = 2
    /\ Len(corr_data) = 4
    /\ "sensitivity_heatmap.png" \in written

====
